---- MODULE Spec2Model ----
(***************************************************************************)
(* Model of the background coordinator of chrome-ext-goat-meet-manager     *)
(* (src/js/background.js): the Meetings registry, the Meeting sessions     *)
(* bound to peer ports, the handlers of peer and UI messages, keyboard     *)
(* commands and context-menu clicks, and the Badge refresh.                *)
(*                                                                         *)
(* JavaScript runs every handler to completion, so each handler is one     *)
(* action; it records what it sent (out, pushed), who it was (last) and    *)
(* the registry it started from (prev), and Return hands control back to   *)
(* the event loop before the next event is dispatched.  A Map is a         *)
(* sequence of entries in insertion order.  null is the string "null" for  *)
(* the nullable fields and -1 for a missing id.                            *)
(***************************************************************************)
EXTENDS Integers, Sequences, FiniteSets, TLC

\* Bounds of the model.
MaxId == 2          \* peer connections accepted over one run
MaxMeetings == 2    \* peer ports connected at the same time
MaxControl == 2     \* control (popup) connections over one run

Null == "null"
NoId == -1
NoPort == -1

VARIABLES
  meetings,   \* Meetings.meetings: the Map of Meeting objects, in insertion order
  nextId,     \* Meetings.nextId
  autofocus,  \* the module-level autofocus preference
  actionButtonBehavior,  \* the module-level action button preference
  display,    \* what Badge.set last applied to the browser action
  popup,      \* Badge.popup: the control port used for refresh pushes, or NoPort
  ports,      \* connected peer ports: port |-> id of the Meeting bound to it
  nextPort,   \* number of peer ports connected so far (the next port's name)
  ctrl,       \* connected control ports
  nextCtrl,   \* number of control ports connected so far
  out,        \* signals the running handler sent towards sessions, in order
  pushed,     \* messages the running handler posted to UI ports, in order
  updates,    \* number of badge.update() calls the running handler made
  last,       \* the handler that ran and has not returned yet, with its inputs
  prev,       \* Meetings.meetings as it was when that handler started
  assigned,   \* history: every id Meetings.add has handed out, in order
  snapshot,   \* history: the 'list' message the port badge.popup names got last
  page,       \* inject.js in one Meet tab: its globals, its buttons, its place
  wire        \* port events of that tab the coordinator has yet to handle

vars == <<meetings, nextId, autofocus, actionButtonBehavior, display, popup, ports, nextPort, ctrl, nextCtrl,
          out, pushed, updates, last, prev, assigned, snapshot, page, wire>>

----------------------------------------------------------------------------
\* Meeting and the Map primitives

\* new Meeting(port) that takes the microphone for muted until told otherwise.
NewMeetingAssumedMuted(port) ==
  [id |-> NoId, port |-> port, title |-> <<Null>>, active |-> FALSE,
   prefer |-> FALSE, audioMuted |-> "true", videoMuted |-> Null]

\* new Meeting(port)
NewMeeting(port) ==
  [id |-> NoId, port |-> port, title |-> <<Null>>, active |-> FALSE,
   prefer |-> FALSE, audioMuted |-> Null, videoMuted |-> Null]

Ids(map) == {map[i].id : i \in 1..Len(map)}

HasKey(map, key) == \E i \in 1..Len(map) : map[i].id = key

KeyIndex(map, key) == CHOOSE i \in 1..Len(map) : map[i].id = key

\* Map.prototype.set: an existing key keeps its place, a new key goes last.
MapSet(map, key, meeting) ==
  IF HasKey(map, key)
    THEN [map EXCEPT ![KeyIndex(map, key)] = meeting]
    ELSE Append(map, meeting)

\* A delete that splices at indexOf(key): with the key absent it drops the
\* last entry.
MapDeleteSplice(map, key) ==
  IF HasKey(map, key)
    THEN SelectSeq(map, LAMBDA m : m.id # key)
    ELSE SubSeq(map, 1, Len(map) - 1)

\* Map.prototype.delete
MapDelete(map, key) == SelectSeq(map, LAMBDA m : m.id # key)

\* Meetings.size
Size(map) == Len(map)

\* Meetings.get that falls back to the newest meeting when the id is unknown.
GetOrNewest(map, id) == IF HasKey(map, id) THEN KeyIndex(map, id) ELSE Len(map)

\* Meetings.get: the index of the entry, 0 for undefined
Get(map, id) == IF HasKey(map, id) THEN KeyIndex(map, id) ELSE 0

\* Meetings.countMeetings_ and the three counts built on it: a field counts
\* when it is truthy, so null (unknown) does not.
NumActive(map) == Cardinality({i \in 1..Len(map) : map[i].active})

\* numAudioMuted counting every meeting that has not reported an unmuted
\* microphone: null counts as muted.
NumAudioNotUnmuted(map) == Cardinality({i \in 1..Len(map) : map[i].audioMuted # "false"})

\* Meetings.numAudioMuted
NumAudioMuted(map) == Cardinality({i \in 1..Len(map) : map[i].audioMuted = "true"})

\* Meetings.numVideoMuted
NumVideoMuted(map) == Cardinality({i \in 1..Len(map) : map[i].videoMuted = "true"})

----------------------------------------------------------------------------
\* Meetings: the registry operations

\* Meetings.add written with meeting.id = this.meetings.size: an id freed by
\* a removal is handed out again.
AddReusingSize(map, nid, meeting) ==
  [meetings |-> MapSet(map, Len(map), [meeting EXCEPT !.id = Len(map)]),
   nextId |-> nid + 1,
   id |-> Len(map)]

\* Meetings.add: meeting.id = this.nextId++; this.meetings.set(id, meeting)
Add(map, nid, meeting) ==
  [meetings |-> MapSet(map, nid, [meeting EXCEPT !.id = nid]),
   nextId |-> nid + 1,
   id |-> nid]

\* Meetings.remove written as a splice at the index of the id.
RemoveSplice(map, id) == MapDeleteSplice(map, id)

\* Meetings.remove that keeps the entry for a while after the disconnect.
RemoveWithGrace(map, id) == map

\* Meetings.remove: this.meetings.delete(meeting.id)
Remove(map, id) == MapDelete(map, id)

\* Meetings.default: forEach overwrites ret, so the last preferred entry wins;
\* 0 stands for undefined.
DefaultIndex(map) ==
  LET S == {i \in 1..Len(map) : map[i].prefer}
  IN IF S = {} THEN 0 ELSE CHOOSE i \in S : \A j \in S : j <= i

\* Meetings.setDefault without the else branch: nothing is cleared.
SetDefaultNoClear(map, id, value) ==
  [i \in 1..Len(map) |->
    IF map[i].id = id THEN [map[i] EXCEPT !.prefer = value] ELSE map[i]]

\* Meetings.setDefault that stops at the entry it was asked about: entries
\* after it are not visited.
SetDefaultStopsAtId(map, id, value) ==
  [i \in 1..Len(map) |->
    IF map[i].id = id THEN [map[i] EXCEPT !.prefer = value]
    ELSE IF value /\ map[i].prefer /\ (~HasKey(map, id) \/ i < KeyIndex(map, id))
      THEN [map[i] EXCEPT !.prefer = FALSE]
    ELSE map[i]]

\* Meetings.setDefault whose else branch forgets to test value: every other
\* entry is cleared whatever value is.
SetDefaultClearsAlways(map, id, value) ==
  [i \in 1..Len(map) |->
    IF map[i].id = id THEN [map[i] EXCEPT !.prefer = value]
    ELSE [map[i] EXCEPT !.prefer = FALSE]]

\* Meetings.setDefault
SetDefault(map, id, value) ==
  [i \in 1..Len(map) |->
    IF map[i].id = id THEN [map[i] EXCEPT !.prefer = value]
    ELSE IF value /\ map[i].prefer THEN [map[i] EXCEPT !.prefer = FALSE]
    ELSE map[i]]

----------------------------------------------------------------------------
\* Signals towards a session.  "autofocus" is a call of Meeting.autofocus,
\* "focus" a call of Meeting.focus (the request to the tab surface), "call" an
\* invocation of the callback handed to processMeetings_, and "send" a
\* port.postMessage of a command.

Data(audio, video) == [audio |-> audio, video |-> video]

\* The default argument {audio: true}
DefaultData == Data(TRUE, FALSE)

Signal(type, m, cmd, data) ==
  [type |-> type, port |-> m.port, cmd |-> cmd,
   audio |-> data.audio, video |-> data.video]

NoData == Data(FALSE, FALSE)

\* Meeting.focus
MeetingFocus(m) == <<Signal("focus", m, "", NoData)>>

\* Meeting.autofocus
MeetingAutofocus(m, pref) ==
  <<Signal("autofocus", m, "", NoData)>> \o (IF pref THEN MeetingFocus(m) ELSE <<>>)

\* Meeting.send, reached from Meeting.toggle, Meeting.mute and Meeting.unmute
MeetingSend(m, cmd, data) == <<Signal("send", m, cmd, data)>>

\* The callback of Meetings.focus without its focused flag: every meeting it
\* is called with is focused.
CallbackFocusesEach(cmd, m, data, first) ==
  <<Signal("call", m, cmd, data)>> \o
  (IF cmd = "focus" THEN MeetingFocus(m) ELSE MeetingSend(m, cmd, data))

\* The callbacks of Meetings.toggle/mute/unmute (forward to the meeting) and of
\* Meetings.focus (focus the first meeting it is called with, then nothing).
Callback(cmd, m, data, first) ==
  <<Signal("call", m, cmd, data)>> \o
  (IF cmd = "focus"
     THEN (IF first THEN MeetingFocus(m) ELSE <<>>)
     ELSE MeetingSend(m, cmd, data))

RECURSIVE ForEachActiveOnly(_, _, _, _, _, _, _)
\* The forEach without the numActive === 0 fallback: only active meetings.
ForEachActiveOnly(map, i, numActive, focused, cmd, data, pref) ==
  IF i > Len(map) THEN <<>>
  ELSE IF map[i].active
    THEN (IF ~focused THEN MeetingAutofocus(map[i], pref) ELSE <<>>)
         \o Callback(cmd, map[i], data, ~focused)
         \o ForEachActiveOnly(map, i + 1, numActive, TRUE, cmd, data, pref)
    ELSE ForEachActiveOnly(map, i + 1, numActive, focused, cmd, data, pref)

RECURSIVE ForEachEveryMeeting(_, _, _, _, _, _, _)
\* The forEach without the test of meeting.active: every meeting.
ForEachEveryMeeting(map, i, numActive, focused, cmd, data, pref) ==
  IF i > Len(map) THEN <<>>
  ELSE (IF ~focused THEN MeetingAutofocus(map[i], pref) ELSE <<>>)
       \o Callback(cmd, map[i], data, ~focused)
       \o ForEachEveryMeeting(map, i + 1, numActive, TRUE, cmd, data, pref)

RECURSIVE ForEachRefocusing(_, _, _, _, _, _, _)
\* The forEach that never sets focused: every target is autofocused.
ForEachRefocusing(map, i, numActive, focused, cmd, data, pref) ==
  IF i > Len(map) THEN <<>>
  ELSE IF numActive = 0 \/ map[i].active
    THEN MeetingAutofocus(map[i], pref)
         \o Callback(cmd, map[i], data, ~focused)
         \o ForEachRefocusing(map, i + 1, numActive, TRUE, cmd, data, pref)
    ELSE ForEachRefocusing(map, i + 1, numActive, focused, cmd, data, pref)

RECURSIVE ForEachTarget(_, _, _, _, _, _, _)
\* The forEach of processMeetings_, from entry i on.
ForEachTarget(map, i, numActive, focused, cmd, data, pref) ==
  IF i > Len(map) THEN <<>>
  ELSE IF numActive = 0 \/ map[i].active
    THEN (IF ~focused THEN MeetingAutofocus(map[i], pref) ELSE <<>>)
         \o Callback(cmd, map[i], data, ~focused)
         \o ForEachTarget(map, i + 1, numActive, TRUE, cmd, data, pref)
    ELSE ForEachTarget(map, i + 1, numActive, focused, cmd, data, pref)

\* processMeetings_ without its first branch: the default meeting is treated
\* like any other.
ProcessMeetingsNoDefault(map, cmd, data, pref) ==
  ForEachTarget(map, 1, NumActive(map), FALSE, cmd, data, pref)

\* Meetings.processMeetings_
ProcessMeetings(map, cmd, data, pref) ==
  IF DefaultIndex(map) # 0
    THEN MeetingAutofocus(map[DefaultIndex(map)], pref)
         \o Callback(cmd, map[DefaultIndex(map)], data, TRUE)
    ELSE ForEachTarget(map, 1, NumActive(map), FALSE, cmd, data, pref)

----------------------------------------------------------------------------
\* Titles are sequences of chunks, so that stripping the prefix is a real
\* operation; NoTitle stands for null/undefined.

NoTitle == <<Null>>

MeetPrefix == "Meet - "

\* title.replace(/^Meet - /, '')
StripPrefix(title) ==
  IF Len(title) > 0 /\ title[1] = MeetPrefix THEN Tail(title) ELSE title

\* if (title): null, undefined and '' are falsy
TitleTruthy(title) == title # NoTitle /\ title # <<>>

----------------------------------------------------------------------------
\* Meetings.state, Meetings.summary and the Badge

\* Meetings.state
State(map) ==
  IF Size(map) = 0 THEN "inactive"
  ELSE IF NumAudioMuted(map) = Size(map) THEN "muted" ELSE "unmuted"

\* Meetings.summary with numActive as the first number of the last phrase.
SummaryCountingActive(map) ==
  IF Size(map) = 0
    THEN "No meetings found. Please reload Google Meet pages to connect."
  ELSE IF Size(map) = NumAudioMuted(map) THEN "All meetings are muted."
  ELSE IF NumAudioMuted(map) = 0 THEN "No meetings are muted."
  ELSE ToString(NumActive(map)) \o " active meetings; "
       \o ToString(NumAudioMuted(map)) \o " are muted."

\* Meetings.summary
Summary(map) ==
  IF Size(map) = 0
    THEN "No meetings found. Please reload Google Meet pages to connect."
  ELSE IF Size(map) = NumAudioMuted(map) THEN "All meetings are muted."
  ELSE IF NumAudioMuted(map) = 0 THEN "No meetings are muted."
  ELSE ToString(Size(map)) \o " active meetings; "
       \o ToString(NumAudioMuted(map)) \o " are muted."

\* The values the options page stores for 'action-behavior'; Undefined is the
\* value read from a storage that holds none.
Undefined == "undefined"

Behaviors ==
  {"popup", "toggle-audio+popup", "toggle-audio", "mute-audio+popup",
   "mute-audio", "focus+popup", "focus", Undefined}

ControlPage == "html/control.html"

InactivePage == "html/inactive.html"

\* Badge.popupAction without the test of meetings.default.
PopupActionIgnoringDefault(behavior, map) ==
  IF behavior = "popup" THEN ControlPage
  ELSE IF behavior \in {"toggle-audio", "focus", "mute-audio"} THEN ""
  ELSE IF NumActive(map) > 1 \/ (NumActive(map) = 0 /\ Size(map) > 1)
    THEN ControlPage
  ELSE ""

\* Badge.popupAction that offers the popup whenever there are several
\* meetings, joined or not.
PopupActionCountsSize(behavior, map) ==
  IF behavior = "popup" THEN ControlPage
  ELSE IF behavior \in {"toggle-audio", "focus", "mute-audio"} THEN ""
  ELSE IF DefaultIndex(map) # 0 THEN ""
  ELSE IF Size(map) > 1 THEN ControlPage
  ELSE ""

\* Badge.popupAction
PopupAction(behavior, map) ==
  IF behavior = "popup" THEN ControlPage
  ELSE IF behavior \in {"toggle-audio", "focus", "mute-audio"} THEN ""
  ELSE IF DefaultIndex(map) # 0 THEN ""
  ELSE IF NumActive(map) > 1 \/ (NumActive(map) = 0 /\ Size(map) > 1)
    THEN ControlPage
  ELSE ""

\* The browser action before the first Badge.set.
BlankDisplay == [icon |-> "", title |-> "", popup |-> "", text |-> "", color |-> ""]

\* Badge.update whose UNMUTED case always shows the size as the badge text.
BadgeDisplayTextIsSize(old, behavior, map) ==
  IF State(map) = "inactive"
    THEN [old EXCEPT !.icon = "inactive", !.title = Summary(map),
                     !.popup = InactivePage, !.text = ""]
  ELSE [icon |-> IF State(map) = "unmuted" THEN "mic-on" ELSE "mic-off",
        title |-> Summary(map),
        popup |-> PopupAction(behavior, map),
        text |-> ToString(Size(map)),
        color |-> IF State(map) = "unmuted" THEN "#219653" ELSE "#d92f25"]

\* Badge.update from "const state" on, with Badge.set: a field that is not
\* given keeps the value applied before.
BadgeDisplay(old, behavior, map) ==
  IF State(map) = "inactive"
    THEN [old EXCEPT !.icon = "inactive", !.title = Summary(map),
                     !.popup = InactivePage, !.text = ""]
  ELSE IF State(map) = "unmuted"
    THEN [icon |-> "mic-on", title |-> Summary(map),
          popup |-> PopupAction(behavior, map),
          text |-> IF NumAudioMuted(map) = 0 THEN ToString(Size(map))
                   ELSE ToString(NumAudioMuted(map)) \o "/" \o ToString(Size(map)),
          color |-> "#219653"]
  ELSE [icon |-> "mic-off", title |-> Summary(map),
        popup |-> PopupAction(behavior, map),
        text |-> ToString(Size(map)), color |-> "#d92f25"]

\* One entry of the 'list' reply of onInternalPageMessage
ListEntry(m) ==
  [id |-> m.id, name |-> m.port, title |-> m.title, prefer |-> m.prefer,
   active |-> m.active, audioMuted |-> m.audioMuted, videoMuted |-> m.videoMuted]

\* The 'list' reply with the newest meeting first.
ListReplyNewestFirst(port, map) ==
  [to |-> port, command |-> "list",
   meetings |-> [i \in 1..Len(map) |-> ListEntry(map[Len(map) + 1 - i])]]

\* onInternalPageMessage, case 'list': the message posted to the port
ListReply(port, map) ==
  [to |-> port, command |-> "list",
   meetings |-> [i \in 1..Len(map) |-> ListEntry(map[i])]]

\* Badge.update without its first statement.
BadgePushNothing(pp, map) == <<>>

\* Badge.update, its first statement: the refresh pushed to a connected popup
BadgePush(pp, map) == IF pp # NoPort THEN <<ListReply(pp, map)>> ELSE <<>>

----------------------------------------------------------------------------
\* The state after the module has loaded with nothing stored: initSettings
\* read no preference, init() ran badge.update() on the empty registry.

\* inject.js before the tab has loaded it: no port, no preference read, no
\* button seen, nothing clicked, nothing done.
ClosedPage ==
  [step |-> "closed", port |-> NoPort,
   audio |-> "false", video |-> "false",
   defaultMuteAudio |-> FALSE, defaultMuteVideo |-> FALSE,
   mutations |-> FALSE,
   clicks |-> [audio |-> 0, video |-> 0],
   did |-> [op |-> "", cmd |-> "", audio |-> FALSE, video |-> FALSE],
   was |-> [audio |-> "false", video |-> "false"]]

Handler(op, port, id, prefer, cmd) ==
  [op |-> op, port |-> port, id |-> id, prefer |-> prefer, cmd |-> cmd]

IdleHandler == Handler("idle", NoPort, NoId, FALSE, "")

\* No handler is running: the event loop may dispatch the next event.
Idle == last = IdleHandler

Init ==
  /\ meetings = <<>>
  /\ nextId = 0
  /\ autofocus = FALSE
  /\ actionButtonBehavior = Undefined
  /\ display = BadgeDisplay(BlankDisplay, actionButtonBehavior, <<>>)
  /\ popup = NoPort
  /\ ports = <<>>
  /\ nextPort = 0
  /\ ctrl = {}
  /\ nextCtrl = 0
  /\ out = <<>>
  /\ pushed = <<>>
  /\ updates = 0
  /\ last = IdleHandler
  /\ prev = <<>>
  /\ assigned = <<>>
  /\ snapshot = <<>>
  /\ page = ClosedPage
  /\ wire = <<>>

\* The index of the Meeting object bound to peer port p, 0 when the registry
\* does not hold it.
PortIndex(map, p) ==
  IF \E i \in 1..Len(map) : map[i].port = p
    THEN CHOOSE i \in 1..Len(map) : map[i].port = p
    ELSE 0

Settings == <<autofocus, actionButtonBehavior>>

Peers == <<ports, nextPort>>

Controls == <<popup, ctrl, nextCtrl>>

\* What a handler dispatched from the event loop leaves behind once the
\* registry is `map`: `n` calls of badge.update() under the action button
\* preference `behavior` and the popup `pp`, the signals `sent`, and its record.
\* The popup keeps the last message it was sent for as long as badge.popup
\* names it; an event that came from the Meet tab is taken off the wire; the
\* tab itself is another process.
FinishWith(map, behavior, pp, n, sent, h) ==
  /\ Idle
  /\ snapshot' = IF pp # popup THEN <<>>
                 ELSE IF n > 0 /\ BadgePush(pp, map) # <<>> THEN BadgePush(pp, map)
                 ELSE snapshot
  /\ wire' = IF wire # <<>> /\ Head(wire).kind = h.op /\ Head(wire).port = h.port
               THEN Tail(wire) ELSE wire
  /\ page' = page
  /\ meetings' = map
  /\ display' = IF n = 0 THEN display ELSE BadgeDisplay(display, behavior, map)
  /\ pushed' = IF n = 0 THEN <<>>
               ELSE IF n = 1 THEN BadgePush(pp, map)
               ELSE BadgePush(pp, map) \o BadgePush(pp, map)
  /\ updates' = n
  /\ out' = sent
  /\ last' = h
  /\ prev' = meetings

\* The same under the preferences and the popup the handler leaves alone.
Finish(map, n, sent, h) == FinishWith(map, actionButtonBehavior, popup, n, sent, h)

----------------------------------------------------------------------------
\* Peer ports.  A peer port is named by the number of its connection.

\* onConnect, default branch: new Meeting(port), Meeting.bind (Meetings.add,
\* which ends in badge.update()), then badge.update() once more.
PeerConnect ==
  /\ nextPort < MaxId
  /\ Cardinality(DOMAIN ports) < MaxMeetings
  /\ LET r == Add(meetings, nextId, NewMeeting(nextPort))
     IN /\ nextId' = r.nextId
        /\ ports' = (nextPort :> r.id) @@ ports
        /\ assigned' = Append(assigned, r.id)
        /\ Finish(r.meetings, 2, <<>>, Handler("connect", nextPort, r.id, FALSE, ""))
  /\ nextPort' = nextPort + 1
  /\ UNCHANGED <<Settings, Controls>>

\* Meeting.disconnect whose Meetings.remove skips its badge.update()
PeerDisconnectNoRefresh(p) ==
  /\ p \in DOMAIN ports
  /\ ports' = [q \in DOMAIN ports \ {p} |-> ports[q]]
  /\ Finish(Remove(meetings, ports[p]), 0, <<>>,
            Handler("disconnect", p, ports[p], FALSE, ""))
  /\ UNCHANGED <<nextId, nextPort, assigned, Settings, Controls>>

\* Meeting.disconnect, the port's onDisconnect listener
PeerDisconnect(p) ==
  /\ p \in DOMAIN ports
  /\ ports' = [q \in DOMAIN ports \ {p} |-> ports[q]]
  /\ Finish(Remove(meetings, ports[p]), 1, <<>>,
            Handler("disconnect", p, ports[p], FALSE, ""))
  /\ UNCHANGED <<nextId, nextPort, assigned, Settings, Controls>>

\* Meeting.message_joined that also forgets what the meeting had reported.
PeerJoinedResetsMute(p) ==
  /\ p \in DOMAIN ports
  /\ PortIndex(meetings, p) # 0
  /\ Finish([meetings EXCEPT ![PortIndex(meetings, p)].active = TRUE,
                             ![PortIndex(meetings, p)].audioMuted = Null,
                             ![PortIndex(meetings, p)].videoMuted = Null], 1, <<>>,
            Handler("joined", p, ports[p], FALSE, ""))
  /\ UNCHANGED <<nextId, Peers, assigned, Settings, Controls>>

\* Meeting.message_joined without its badge.update()
PeerJoinedNoRefresh(p) ==
  /\ p \in DOMAIN ports
  /\ PortIndex(meetings, p) # 0
  /\ Finish([meetings EXCEPT ![PortIndex(meetings, p)].active = TRUE], 0, <<>>,
            Handler("joined", p, ports[p], FALSE, ""))
  /\ UNCHANGED <<nextId, Peers, assigned, Settings, Controls>>

\* Meeting.recv dispatching to Meeting.message_joined
PeerJoined(p) ==
  /\ p \in DOMAIN ports
  /\ PortIndex(meetings, p) # 0
  /\ Finish([meetings EXCEPT ![PortIndex(meetings, p)].active = TRUE], 1, <<>>,
            Handler("joined", p, ports[p], FALSE, ""))
  /\ UNCHANGED <<nextId, Peers, assigned, Settings, Controls>>

\* Meeting.message_update that also marks the meeting as not joined.
MessageUpdateResetsActive(m, title, audioMuted, videoMuted) ==
  [meeting |-> [m EXCEPT !.title = IF TitleTruthy(title) THEN StripPrefix(title) ELSE @,
                         !.audioMuted = audioMuted,
                         !.videoMuted = videoMuted,
                         !.active = FALSE],
   update |-> (m.audioMuted # audioMuted \/ m.videoMuted # videoMuted)]

\* Meeting.message_update that refreshes the badge on any change of the
\* meeting, the title included.
MessageUpdateOnAnyChange(m, title, audioMuted, videoMuted) ==
  [meeting |-> [m EXCEPT !.title = IF TitleTruthy(title) THEN StripPrefix(title) ELSE @,
                         !.audioMuted = audioMuted,
                         !.videoMuted = videoMuted],
   update |-> (m.audioMuted # audioMuted \/ m.videoMuted # videoMuted
               \/ (TitleTruthy(title) /\ StripPrefix(title) # m.title))]

\* Meeting.message_update on the Meeting m
MessageUpdate(m, title, audioMuted, videoMuted) ==
  [meeting |-> [m EXCEPT !.title = IF TitleTruthy(title) THEN StripPrefix(title) ELSE @,
                         !.audioMuted = audioMuted,
                         !.videoMuted = videoMuted],
   update |-> (m.audioMuted # audioMuted \/ m.videoMuted # videoMuted)]

\* The mute states a peer reports: inject.js sends two booleans.
Reported == {"true", "false"}

\* The titles a peer reports: inject.js sends none.
Titles == {NoTitle}

\* Meeting.recv dispatching to Meeting.message_update
PeerUpdate(p, title, audioMuted, videoMuted) ==
  /\ p \in DOMAIN ports
  /\ PortIndex(meetings, p) # 0
  /\ LET i == PortIndex(meetings, p)
         r == MessageUpdate(meetings[i], title, audioMuted, videoMuted)
     IN Finish([meetings EXCEPT ![i] = r.meeting], IF r.update THEN 1 ELSE 0, <<>>,
               Handler("update", p, ports[p], FALSE, ""))
  /\ UNCHANGED <<nextId, Peers, assigned, Settings, Controls>>

----------------------------------------------------------------------------
\* UI pages, keyboard commands and the context menu

\* onInternalPageMessage, case 'default'.  The id is whatever the page sent:
\* it may name no meeting.
UiDefault(id, prefer) ==
  /\ Finish(SetDefault(meetings, id, prefer), 1, <<>>,
            Handler("default", NoPort, id, prefer, ""))
  /\ UNCHANGED <<nextId, Peers, assigned, Settings, Controls>>

\* onInternalPageMessage, case 'focus': the meeting named by id, if any
UiFocus(id) ==
  /\ Finish(meetings, 0,
            IF Get(meetings, id) # 0 THEN MeetingFocus(meetings[Get(meetings, id)]) ELSE <<>>,
            Handler("ui", NoPort, id, FALSE, "focus"))
  /\ UNCHANGED <<nextId, Peers, assigned, Settings, Controls>>

\* onInternalPageMessage, case 'toggle', written with meetings.toggle(message):
\* the id picks nothing, the selection algorithm does.
UiToggleThroughSelection(id, data) ==
  /\ Finish(meetings, 0,
            IF Get(meetings, id) # 0
              THEN ProcessMeetings(meetings, "toggle", data, autofocus)
              ELSE <<>>,
            Handler("ui", NoPort, id, FALSE, "toggle"))
  /\ UNCHANGED <<nextId, Peers, assigned, Settings, Controls>>

\* onInternalPageMessage, case 'toggle': meeting.toggle(message), where the
\* message of the popup carries audio: true or video: true next to the id.
UiToggle(id, data) ==
  /\ Finish(meetings, 0,
            IF Get(meetings, id) # 0
              THEN MeetingSend(meetings[Get(meetings, id)], "toggle", data)
              ELSE <<>>,
            Handler("ui", NoPort, id, FALSE, "toggle"))
  /\ UNCHANGED <<nextId, Peers, assigned, Settings, Controls>>

\* What the buttons of the popup put in a 'toggle' message.
ToggleData == {Data(TRUE, FALSE), Data(FALSE, TRUE)}

\* onInternalPageMessage, default case, ending in badge.update()
UiUnknownRefreshes ==
  /\ Finish(meetings, 1, <<>>, Handler("ui", NoPort, NoId, FALSE, "unknown"))
  /\ UNCHANGED <<nextId, Peers, assigned, Settings, Controls>>

\* onInternalPageMessage, default case: a command it does not know is logged.
UiUnknown ==
  /\ Finish(meetings, 0, <<>>, Handler("ui", NoPort, NoId, FALSE, "unknown"))
  /\ UNCHANGED <<nextId, Peers, assigned, Settings, Controls>>

\* Meeting.recv, else branch: no message_ handler of that name, a warning.
PeerUnknown(p) ==
  /\ p \in DOMAIN ports
  /\ Finish(meetings, 0, <<>>, Handler("peer", p, ports[p], FALSE, "unknown"))
  /\ UNCHANGED <<nextId, Peers, assigned, Settings, Controls>>

\* port.sender.tab of a peer port: every Meet page is a tab of its own, in
\* the window it was in when it connected.
Tab(port) == [id |-> port, windowId |-> 0]

\* The windows the active tab may be in.
Windows == {0, 1}

\* A tab id and a window id as one number, for the record of the handler.
TabKey(tabId, windowId) == tabId * Cardinality(Windows) + windowId

\* Meetings.find that compares the tab id only.
FindIgnoringWindow(map, tabId, windowId) ==
  LET S == {i \in 1..Len(map) : Tab(map[i].port).id = tabId}
  IN IF S = {} THEN 0 ELSE CHOOSE i \in S : \A j \in S : j <= i

\* Meetings.find: forEach overwrites ret, so the last match wins; 0 stands
\* for undefined.
Find(map, tabId, windowId) ==
  LET S == {i \in 1..Len(map) :
              Tab(map[i].port).id = tabId /\ Tab(map[i].port).windowId = windowId}
  IN IF S = {} THEN 0 ELSE CHOOSE i \in S : \A j \in S : j <= i

\* onActionClicked, the switch: the method each behaviour ends in; a value
\* it does not know falls through to the toggle case, 'popup' returns.
ActionOf(behavior) ==
  IF behavior = "popup" THEN ""
  ELSE IF behavior \in {"mute-audio+popup", "mute-audio"} THEN "mute"
  ELSE IF behavior \in {"focus+popup", "focus"} THEN "focus"
  ELSE "toggle"

\* onActionClicked(tab)
OnActionClicked(tabId, windowId) ==
  LET i == Find(meetings, tabId, windowId)
      act == ActionOf(actionButtonBehavior)
  IN /\ Finish(meetings, 0,
               IF act = "" THEN <<>>
               ELSE IF i # 0
                 THEN (IF act = "focus" THEN MeetingFocus(meetings[i])
                       ELSE MeetingSend(meetings[i], act, DefaultData))
               ELSE ProcessMeetings(meetings, act,
                                    IF act = "focus" THEN NoData ELSE DefaultData,
                                    autofocus),
               Handler("click", TabKey(tabId, windowId),
                       IF i # 0 THEN meetings[i].id ELSE NoId, FALSE, act))
     /\ UNCHANGED <<nextId, Peers, assigned, Settings, Controls>>

\* onCommand: the Meetings method and the data each bound command passes
Commands ==
  [c \in {"focus", "mute-audio", "unmute-audio", "toggle-mute-audio",
          "mute-both", "unmute-both", "toggle-mute-both",
          "mute-video", "unmute-video", "toggle-mute-video"} |->
    CASE c = "focus" -> [cmd |-> "focus", data |-> NoData]
      [] c = "mute-audio" -> [cmd |-> "mute", data |-> Data(TRUE, FALSE)]
      [] c = "unmute-audio" -> [cmd |-> "unmute", data |-> Data(TRUE, FALSE)]
      [] c = "toggle-mute-audio" -> [cmd |-> "toggle", data |-> Data(TRUE, FALSE)]
      [] c = "mute-both" -> [cmd |-> "mute", data |-> Data(TRUE, TRUE)]
      [] c = "unmute-both" -> [cmd |-> "unmute", data |-> Data(TRUE, TRUE)]
      [] c = "toggle-mute-both" -> [cmd |-> "toggle", data |-> Data(TRUE, TRUE)]
      [] c = "mute-video" -> [cmd |-> "mute", data |-> Data(FALSE, TRUE)]
      [] c = "unmute-video" -> [cmd |-> "unmute", data |-> Data(FALSE, TRUE)]
      [] c = "toggle-mute-video" -> [cmd |-> "toggle", data |-> Data(FALSE, TRUE)]]

\* onCommand that records a mute as done without waiting for the peer's
\* 'update'.
OnCommandAssumesMuted(command) ==
  /\ Finish(IF command = "mute-audio"
              THEN [i \in 1..Len(meetings) |-> [meetings[i] EXCEPT !.audioMuted = "true"]]
              ELSE meetings,
            0,
            IF command \in DOMAIN Commands
              THEN ProcessMeetings(meetings, Commands[command].cmd,
                                   Commands[command].data, autofocus)
              ELSE <<>>,
            Handler("command", NoPort, NoId, FALSE,
                    IF command \in DOMAIN Commands THEN Commands[command].cmd ELSE ""))
  /\ UNCHANGED <<nextId, Peers, assigned, Settings, Controls>>

\* onCommand.  A command outside the table is logged and nothing else.
OnCommand(command) ==
  /\ Finish(meetings, 0,
            IF command \in DOMAIN Commands
              THEN ProcessMeetings(meetings, Commands[command].cmd,
                                   Commands[command].data, autofocus)
              ELSE <<>>,
            Handler("command", NoPort, NoId, FALSE,
                    IF command \in DOMAIN Commands THEN Commands[command].cmd ELSE ""))
  /\ UNCHANGED <<nextId, Peers, assigned, Settings, Controls>>

\* onContextMenu.  'feedback' and 'cws' open a page and an unknown item is
\* logged: none of them reaches the registry.
OnContextMenu(item) ==
  /\ IF item = "focus"
       THEN Finish(meetings, 0, ProcessMeetings(meetings, "focus", NoData, autofocus),
                   Handler("menu", NoPort, NoId, FALSE, "focus"))
     ELSE IF item = "clear-default" /\ DefaultIndex(meetings) # 0
       THEN Finish([meetings EXCEPT ![DefaultIndex(meetings)].prefer = FALSE], 1, <<>>,
                   Handler("menu", NoPort, NoId, FALSE, item))
     ELSE Finish(meetings, 0, <<>>, Handler("menu", NoPort, NoId, FALSE, item))
  /\ UNCHANGED <<nextId, Peers, assigned, Settings, Controls>>

MenuItems == {"focus", "clear-default", "feedback"}

\* onConnect, case 'control', keeping the popup that is already tracked.
ControlConnectKeepsFirst ==
  /\ nextCtrl < MaxControl
  /\ ctrl' = ctrl \cup {nextCtrl}
  /\ popup' = IF popup = NoPort THEN nextCtrl ELSE popup
  /\ nextCtrl' = nextCtrl + 1
  /\ FinishWith(meetings, actionButtonBehavior, IF popup = NoPort THEN nextCtrl ELSE popup,
                0, <<>>, Handler("control-connect", nextCtrl, NoId, FALSE, ""))
  /\ UNCHANGED <<nextId, Peers, assigned, Settings>>

\* onConnect, case 'control': the popup page connected
ControlConnect ==
  /\ nextCtrl < MaxControl
  /\ ctrl' = ctrl \cup {nextCtrl}
  /\ popup' = nextCtrl
  /\ nextCtrl' = nextCtrl + 1
  /\ FinishWith(meetings, actionButtonBehavior, nextCtrl, 0, <<>>,
                Handler("control-connect", nextCtrl, NoId, FALSE, ""))
  /\ UNCHANGED <<nextId, Peers, assigned, Settings>>

\* onPopupDisconnect leaving badge.popup as it is.
ControlDisconnectKeepsReference(c) ==
  /\ c \in ctrl
  /\ ctrl' = ctrl \ {c}
  /\ popup' = popup
  /\ Finish(meetings, 0, <<>>, Handler("control-disconnect", c, NoId, FALSE, ""))
  /\ UNCHANGED <<nextId, nextCtrl, Peers, assigned, Settings>>

\* onPopupDisconnect
ControlDisconnect(c) ==
  /\ c \in ctrl
  /\ ctrl' = ctrl \ {c}
  /\ popup' = NoPort
  /\ FinishWith(meetings, actionButtonBehavior, NoPort, 0, <<>>,
                Handler("control-disconnect", c, NoId, FALSE, ""))
  /\ UNCHANGED <<nextId, nextCtrl, Peers, assigned, Settings>>

\* onStorageChanged with the key 'autofocus'
StorageAutofocus(value) ==
  /\ autofocus' = value
  /\ Finish(meetings, 1, <<>>, Handler("storage", NoPort, NoId, value, "autofocus"))
  /\ UNCHANGED <<nextId, Peers, assigned, actionButtonBehavior, Controls>>

\* onStorageChanged with the key 'action-behavior': the new value is stored
\* as it comes, then badge.update() runs under it.
StorageBehavior(value) ==
  /\ actionButtonBehavior' = value
  /\ FinishWith(meetings, value, popup, 1, <<>>,
                Handler("storage", NoPort, NoId, FALSE, "action-behavior"))
  /\ UNCHANGED <<nextId, Peers, assigned, autofocus, Controls>>

\* onInternalPageMessage(port, {command: 'list'}) for a message that came over
\* the connected control port c: the reply goes to that port.
UiList(c) ==
  /\ Idle
  /\ c \in ctrl
  /\ pushed' = <<ListReply(c, meetings)>>
  /\ snapshot' = IF c = popup THEN <<ListReply(c, meetings)>> ELSE snapshot
  /\ out' = <<>>
  /\ updates' = 0
  /\ last' = Handler("list", c, NoId, FALSE, "list")
  /\ prev' = meetings
  /\ UNCHANGED <<meetings, display, nextId, Peers, assigned, Settings, Controls, page, wire>>

\* The handler returns to the event loop.
Return ==
  /\ ~Idle
  /\ last' = IdleHandler
  /\ out' = <<>>
  /\ pushed' = <<>>
  /\ updates' = 0
  /\ prev' = meetings
  /\ UNCHANGED <<meetings, nextId, Peers, assigned, Settings, display, Controls,
                 snapshot, page, wire>>

----------------------------------------------------------------------------
\* The coordinator driven by its events

Next ==
  \/ PeerConnect
  \/ \E p \in DOMAIN ports : PeerDisconnect(p)
  \/ \E p \in DOMAIN ports : PeerJoined(p)
  \/ \E p \in DOMAIN ports, t \in Titles, a \in Reported, v \in Reported :
       PeerUpdate(p, t, a, v)
  \/ \E id \in 0..MaxId, prefer \in BOOLEAN : UiDefault(id, prefer)
  \/ \E c \in DOMAIN Commands \cup {"unknown"} : OnCommand(c)
  \/ \E item \in MenuItems : OnContextMenu(item)
  \/ \E value \in BOOLEAN : StorageAutofocus(value)
  \/ Return

Spec == Init /\ [][Next]_vars

----------------------------------------------------------------------------
\* The registry driven through its own methods, with arguments no handler of
\* the coordinator passes: a Meeting that was never added or was removed.

\* meetings.add(new Meeting(port)) without the port listeners of Meeting.bind
ApiAdd ==
  /\ nextPort < MaxId
  /\ Len(meetings) < MaxMeetings
  /\ LET r == Add(meetings, nextId, NewMeeting(nextPort))
     IN /\ nextId' = r.nextId
        /\ assigned' = Append(assigned, r.id)
        /\ Finish(r.meetings, 1, <<>>, Handler("add", nextPort, r.id, FALSE, ""))
  /\ nextPort' = nextPort + 1
  /\ UNCHANGED <<ports, Settings, Controls>>

\* meetings.remove(meeting) for a Meeting whose id field is `id` (NoId until
\* it is added)
ApiRemove(id) ==
  /\ Finish(Remove(meetings, id), 1, <<>>, Handler("remove", NoPort, id, FALSE, ""))
  /\ UNCHANGED <<nextId, Peers, assigned, Settings, Controls>>

\* message_joined on the Meeting at entry i
ApiJoined(i) ==
  /\ i \in 1..Len(meetings)
  /\ Finish([meetings EXCEPT ![i].active = TRUE], 1, <<>>,
            Handler("joined", meetings[i].port, meetings[i].id, FALSE, ""))
  /\ UNCHANGED <<nextId, Peers, assigned, Settings, Controls>>

NextApi ==
  \/ ApiAdd
  \/ \E id \in NoId..MaxId : ApiRemove(id)
  \/ \E i \in 1..MaxMeetings : ApiJoined(i)
  \/ \E id \in 0..MaxId, prefer \in BOOLEAN : UiDefault(id, prefer)
  \/ Return

SpecApi == Init /\ [][NextApi]_vars

----------------------------------------------------------------------------
\* The badge under every action button preference: peers, the 'default'
\* command, the clear-default menu item and the options page storing a new
\* 'action-behavior'.

NextBadge ==
  \/ PeerConnect
  \/ \E p \in DOMAIN ports : PeerDisconnect(p)
  \/ \E p \in DOMAIN ports : PeerJoined(p)
  \/ \E p \in DOMAIN ports, a \in Reported : PeerUpdate(p, NoTitle, a, "false")
  \/ \E id \in 0..MaxId, prefer \in BOOLEAN : UiDefault(id, prefer)
  \/ OnContextMenu("clear-default")
  \/ \E value \in Behaviors : StorageBehavior(value)
  \/ Return

SpecBadge == Init /\ [][NextBadge]_vars

----------------------------------------------------------------------------
\* The popup: control ports connect, ask for the list and disconnect while
\* peers come, join, report and go.

NextPopup ==
  \/ PeerConnect
  \/ \E p \in DOMAIN ports : PeerDisconnect(p)
  \/ \E p \in DOMAIN ports : PeerJoined(p)
  \/ \E p \in DOMAIN ports, a \in Reported : PeerUpdate(p, NoTitle, a, "false")
  \/ \E id \in 0..MaxId, prefer \in BOOLEAN : UiDefault(id, prefer)
  \/ ControlConnect
  \/ \E c \in ctrl : ControlDisconnect(c)
  \/ \E c \in ctrl : UiList(c)
  \/ Return

SpecPopup == Init /\ [][NextPopup]_vars

----------------------------------------------------------------------------
\* The 'update' message as the wire allows it: with or without a title, the
\* title with or without the prefix the Meet page puts in front of it.

WireTitles == {NoTitle, <<>>, <<MeetPrefix, "standup">>, <<"standup">>}

NextWire ==
  \/ PeerConnect
  \/ \E p \in DOMAIN ports : PeerDisconnect(p)
  \/ \E p \in DOMAIN ports, t \in WireTitles, a \in Reported, v \in Reported :
       PeerUpdate(p, t, a, v)
  \/ Return

SpecWire == Init /\ [][NextWire]_vars

----------------------------------------------------------------------------
\* The popup kept up to date: one control port connects and stays while peers
\* come, join, go and report, with or without a title.

NextRefresh ==
  \/ PeerConnect
  \/ \E p \in DOMAIN ports : PeerDisconnect(p)
  \/ \E p \in DOMAIN ports : PeerJoined(p)
  \/ \E p \in DOMAIN ports, t \in WireTitles, a \in Reported : PeerUpdate(p, t, a, "false")
  \/ \E id \in 0..MaxId : UiDefault(id, TRUE)
  \/ (ctrl = {} /\ ControlConnect)
  \/ \E c \in ctrl : UiList(c)
  \/ Return

SpecRefresh == Init /\ [][NextRefresh]_vars

----------------------------------------------------------------------------
\* The UI pages naming a meeting by its id, and messages with a command
\* nobody knows, from a UI page or from a peer.

NextUi ==
  \/ PeerConnect
  \/ \E p \in DOMAIN ports : PeerDisconnect(p)
  \/ \E p \in DOMAIN ports : PeerJoined(p)
  \/ \E p \in DOMAIN ports, a \in Reported : PeerUpdate(p, NoTitle, a, "false")
  \/ \E p \in DOMAIN ports : PeerUnknown(p)
  \/ \E id \in 0..MaxId, prefer \in BOOLEAN : UiDefault(id, prefer)
  \/ \E id \in 0..MaxId : UiFocus(id)
  \/ \E id \in 0..MaxId, data \in ToggleData : UiToggle(id, data)
  \/ UiUnknown
  \/ Return

SpecUi == Init /\ [][NextUi]_vars

----------------------------------------------------------------------------
\* The action button: clicked on any tab, under every stored behaviour.

NextClick ==
  \/ PeerConnect
  \/ \E p \in DOMAIN ports : PeerDisconnect(p)
  \/ \E p \in DOMAIN ports : PeerJoined(p)
  \/ \E id \in 0..MaxId : UiDefault(id, TRUE)
  \/ \E value \in Behaviors : StorageBehavior(value)
  \/ \E tabId \in 0..MaxId, windowId \in Windows : OnActionClicked(tabId, windowId)
  \/ Return

SpecClick == Init /\ [][NextClick]_vars

----------------------------------------------------------------------------
\* inject.js in one Meet tab.  The microphone and the camera button carry
\* dataset.isMuted, the string 'true' or 'false'; Meet flips it when the button
\* is clicked, and the MutationObserver of init() is told of the change.

\* Port events the coordinator may have before it at once.
MaxWire == 2

\* ele.click() seen through dataset.isMuted
Click(isMuted) == IF isMuted = "true" THEN "false" ELSE "true"

\* ele.dataset.isMuted === 'true', as the coordinator stores the boolean
IsMuted(isMuted) == IF isMuted = "true" THEN "true" ELSE "false"

\* commandToggle
CommandToggle(pg, data) ==
  [pg EXCEPT !.audio = IF data.audio THEN Click(@) ELSE @,
             !.video = IF data.video THEN Click(@) ELSE @]

\* commandMute clicking whatever the button shows.
CommandMuteAlwaysClicks(pg, data) ==
  [pg EXCEPT !.audio = IF data.audio THEN Click(@) ELSE @,
             !.video = IF data.video THEN Click(@) ELSE @]

\* commandMute
CommandMute(pg, data) ==
  [pg EXCEPT !.audio = IF data.audio /\ @ # "true" THEN Click(@) ELSE @,
             !.video = IF data.video /\ @ # "true" THEN Click(@) ELSE @]

\* commandUnmute
CommandUnmute(pg, data) ==
  [pg EXCEPT !.audio = IF data.audio /\ @ = "true" THEN Click(@) ELSE @,
             !.video = IF data.video /\ @ = "true" THEN Click(@) ELSE @]

\* The commands map
PageCommands == {"mute", "toggle", "unmute"}

\* onMessage: dispatch through the commands map, a warning for the rest
OnMessage(pg, command, data) ==
  CASE command = "mute" -> CommandMute(pg, data)
    [] command = "toggle" -> CommandToggle(pg, data)
    [] command = "unmute" -> CommandUnmute(pg, data)
    [] OTHER -> pg

\* defaultMuteMeeting that keeps the preference after its click.
DefaultMuteMeetingKeepsPref(pg) ==
  LET a == pg.defaultMuteAudio /\ pg.audio # "true"
      v == pg.defaultMuteVideo /\ pg.video # "true"
  IN [pg EXCEPT !.audio = IF a THEN Click(@) ELSE @,
                !.clicks.audio = IF a THEN @ + 1 ELSE @,
                !.video = IF v THEN Click(@) ELSE @,
                !.clicks.video = IF v THEN @ + 1 ELSE @]

\* defaultMuteMeeting; clicks counts the clicks it made on each button
DefaultMuteMeeting(pg) ==
  LET a == pg.defaultMuteAudio /\ pg.audio # "true"
      v == pg.defaultMuteVideo /\ pg.video # "true"
  IN [pg EXCEPT !.audio = IF a THEN Click(@) ELSE @,
                !.clicks.audio = IF a THEN @ + 1 ELSE @,
                !.defaultMuteAudio = IF a THEN FALSE ELSE @,
                !.video = IF v THEN Click(@) ELSE @,
                !.clicks.video = IF v THEN @ + 1 ELSE @,
                !.defaultMuteVideo = IF v THEN FALSE ELSE @]

\* A port event on its way to the coordinator: the port connected or
\* disconnected, or a message posted by Connection.send.
Event(kind, port, audioMuted, videoMuted) ==
  [kind |-> kind, port |-> port, audioMuted |-> audioMuted, videoMuted |-> videoMuted]

\* connection.send('update', ...) with the live state of the buttons
Update(pg) == Event("update", pg.port, IsMuted(pg.audio), IsMuted(pg.video))

\* The name of the port chrome.runtime.connect would open now: ports are named
\* in the order the coordinator's onConnect sees them.
NewPort == nextPort + Cardinality({k \in 1..Len(wire) : wire[k].kind = "connect"})

\* The coordinator, which is another process.
Background ==
  <<meetings, nextId, autofocus, actionButtonBehavior, display, popup, ports, nextPort,
    ctrl, nextCtrl, out, pushed, updates, last, prev, assigned, snapshot>>

Did(op, cmd, data) == [op |-> op, cmd |-> cmd, audio |-> data.audio, video |-> data.video]

\* The page once a step of it took the buttons from `before` to `pg`: the
\* observer is told if a button changed, and the step is recorded.
Noted(pg, before, did) ==
  [pg EXCEPT !.mutations = @ \/ pg.audio # before.audio \/ pg.video # before.video,
             !.did = did,
             !.was = [audio |-> before.audio, video |-> before.video]]

\* The script loads: connection.connect(), then the callback of
\* chrome.storage.sync.get runs initSettings and starts meetingLifeCycle.
PageLoad(settings) ==
  /\ page.step = "closed"
  /\ NewPort < MaxId
  /\ Len(wire) < MaxWire
  /\ page' = [page EXCEPT !.step = "init", !.port = NewPort,
                          !.defaultMuteAudio = settings.audio,
                          !.defaultMuteVideo = settings.video,
                          !.did = Did("load", "", settings)]
  /\ wire' = Append(wire, Event("connect", NewPort, Null, Null))
  /\ UNCHANGED Background

\* meetingLifeCycle, first part: init() finds the buttons in the states
\* audio and video, reports them and starts the observer; then
\* defaultMuteMeeting().
PageInit(audio, video) ==
  /\ page.step = "init"
  /\ Len(wire) < MaxWire
  /\ LET seen == [page EXCEPT !.step = "lobby", !.audio = audio, !.video = video]
     IN /\ page' = Noted(DefaultMuteMeeting(seen), seen, Did("init", "", NoData))
        /\ wire' = Append(wire, Update(seen))
  /\ UNCHANGED Background

\* meetingLifeCycle: the user joined, connection.send('joined')
PageJoin ==
  /\ page.step = "lobby"
  /\ Len(wire) < MaxWire
  /\ page' = [page EXCEPT !.step = "rebind", !.did = Did("join", "", NoData)]
  /\ wire' = Append(wire, Event("joined", page.port, Null, Null))
  /\ UNCHANGED Background

\* meetingLifeCycle: the second init() finds the buttons again, reports them
\* and replaces the observer, whose pending records are dropped.
PageRebind ==
  /\ page.step = "rebind"
  /\ Len(wire) < MaxWire
  /\ page' = [page EXCEPT !.step = "meeting", !.mutations = FALSE,
                          !.did = Did("rebind", "", NoData)]
  /\ wire' = Append(wire, Update(page))
  /\ UNCHANGED Background

\* meetingLifeCycle ends and its finally() runs: observer.disconnect() and
\* connection.disconnect(); the coordinator's end of the port is told.
PageLeave ==
  /\ page.step = "meeting"
  /\ Len(wire) < MaxWire
  /\ page' = [page EXCEPT !.step = "over", !.port = NoPort, !.mutations = FALSE,
                          !.did = Did("leave", "", NoData)]
  /\ wire' = Append(wire, Event("disconnect", page.port, Null, Null))
  /\ UNCHANGED Background

\* onMutations
PageMutations ==
  /\ page.step \in {"lobby", "meeting"}
  /\ page.mutations
  /\ Len(wire) < MaxWire
  /\ LET taken == [page EXCEPT !.mutations = FALSE]
         pg == IF page.defaultMuteAudio \/ page.defaultMuteVideo
                 THEN DefaultMuteMeeting(taken) ELSE taken
     IN /\ page' = Noted(pg, taken, Did("mutations", "", NoData))
        /\ wire' = Append(wire, Update(pg))
  /\ UNCHANGED Background

\* The user, or Meet once it has detected the hardware, flips a button.
PageClick(device) ==
  /\ page.step \in {"lobby", "meeting"}
  /\ page' = Noted([page EXCEPT ![device] = Click(@)], page,
                   Did("user", device, NoData))
  /\ UNCHANGED <<Background, wire>>

\* onMessage for a message of the coordinator, while the buttons are there
PageCommand(command, data) ==
  /\ page.step \in {"lobby", "meeting"}
  /\ page' = Noted(OnMessage(page, command, data), page, Did("command", command, data))
  /\ UNCHANGED <<Background, wire>>

\* The port is closed under the page: the coordinator's end is told, and the
\* page's onDisconnect listener runs Connection.reconnect, that is
\* disconnect() then connect().
PortDropped ==
  /\ page.step \in {"init", "lobby", "rebind", "meeting"}
  /\ NewPort < MaxId
  /\ Len(wire) + 2 <= MaxWire
  /\ page' = [page EXCEPT !.port = NewPort, !.did = Did("reconnect", "", NoData)]
  /\ wire' = wire \o <<Event("disconnect", page.port, Null, Null),
                       Event("connect", NewPort, Null, Null)>>
  /\ UNCHANGED Background

\* The next port event of the tab is one of kind `kind`.
Arrives(kind) == wire # <<>> /\ Head(wire).kind = kind

----------------------------------------------------------------------------
\* One Meet tab through its life cycle, its port dropped and reopened on the
\* way, and the coordinator handling the port's events in the order they were
\* caused.

NextJoin ==
  \/ PageLoad(NoData)
  \/ \E a \in Reported : PageInit(a, "false")
  \/ PageJoin
  \/ PageRebind
  \/ PageLeave
  \/ PageClick("audio")
  \/ PageMutations
  \/ PortDropped
  \/ (Arrives("connect") /\ PeerConnect)
  \/ (Arrives("disconnect") /\ PeerDisconnect(Head(wire).port))
  \/ (Arrives("joined") /\ PeerJoined(Head(wire).port))
  \/ (Arrives("update") /\
        PeerUpdate(Head(wire).port, NoTitle, Head(wire).audioMuted, Head(wire).videoMuted))
  \/ Return

SpecJoin == Init /\ [][NextJoin]_vars

----------------------------------------------------------------------------
\* The default mute preferences of one Meet tab against its user, who flips
\* the buttons before and after joining.

NextDevices ==
  \/ \E a \in BOOLEAN, v \in BOOLEAN : PageLoad(Data(a, v))
  \/ \E a \in Reported, v \in Reported : PageInit(a, v)
  \/ PageJoin
  \/ PageRebind
  \/ \E device \in {"audio", "video"} : PageClick(device)
  \/ PageMutations
  \/ (Arrives("connect") /\ PeerConnect)
  \/ (Arrives("joined") /\ PeerJoined(Head(wire).port))
  \/ (Arrives("update") /\
        PeerUpdate(Head(wire).port, NoTitle, Head(wire).audioMuted, Head(wire).videoMuted))
  \/ Return

SpecDevices == Init /\ [][NextDevices]_vars

----------------------------------------------------------------------------
\* The commands of the coordinator in one Meet tab that waits to be joined.

NextCommands ==
  \/ PageLoad(NoData)
  \/ \E a \in Reported, v \in Reported : PageInit(a, v)
  \/ \E command \in PageCommands \cup {"unknown"}, a \in BOOLEAN, v \in BOOLEAN :
       PageCommand(command, Data(a, v))
  \/ PageMutations
  \/ (Arrives("connect") /\ PeerConnect)
  \/ (Arrives("update") /\
        PeerUpdate(Head(wire).port, NoTitle, Head(wire).audioMuted, Head(wire).videoMuted))
  \/ Return

SpecCommands == Init /\ [][NextCommands]_vars

----------------------------------------------------------------------------
\* Vocabulary of the properties

Preferred(map) == {i \in 1..Len(map) : map[i].prefer}

\* The handler that ran was meetings.setDefault(last.id, last.prefer).
RanSetDefault == last.op = "default"

\* The handler that ran was a broadcast: Meetings.toggle, mute, unmute or
\* focus, reached from a keyboard command or the context menu.
RanBroadcast ==
  /\ last.op \in {"command", "menu"}
  /\ last.cmd \in {"toggle", "mute", "unmute", "focus"}

OutOf(type) == SelectSeq(out, LAMBDA e : e.type = type)

PortsOf(events) == [i \in 1..Len(events) |-> events[i].port]

\* The ports of the sessions the callback was invoked for, in order.
Called == PortsOf(OutOf("call"))

\* The ports a command was posted to, in order.
Sent == PortsOf(OutOf("send"))

ActiveOnes(map) == SelectSeq(map, LAMBDA m : m.active)

StrictlyIncreasing(seq) == \A i, j \in 1..Len(seq) : i < j => seq[i] < seq[j]

\* The peer ports whose disconnect handler has run.
Gone == (0..(nextPort - 1)) \ DOMAIN ports

\* The sessions of `before` that are still in `after`, as pairs of indexes.
Kept(before, after) ==
  {ij \in (1..Len(before)) \X (1..Len(after)) : before[ij[1]].id = after[ij[2]].id}

\* The sessions whose microphone is known to be muted.
AudioMutedOnes(map) == {i \in 1..Len(map) : map[i].audioMuted = "true"}

\* The registry with every session's videoMuted replaced by v.
WithVideo(map, v) == [i \in 1..Len(map) |-> [map[i] EXCEPT !.videoMuted = v]]

Green == "#219653"

Red == "#d92f25"

\* The fields of a session the badge depends on.
Shown(m) == <<m.id, m.prefer, m.active, m.audioMuted, m.videoMuted>>

\* The handler that ran changed the membership of the registry or a field of
\* a session the badge depends on.
RegistryChanged ==
  {Shown(prev[i]) : i \in 1..Len(prev)} # {Shown(meetings[i]) : i \in 1..Len(meetings)}

\* The handler that ran answered a 'list' command.
RanList == last.op = "list"

\* The control port that connected last.
NewestControl == nextCtrl - 1

\* The handler that ran was a UI 'focus' or 'toggle' naming the id last.id.
RanById == last.op = "ui" /\ last.cmd \in {"focus", "toggle"}

\* The handler that ran was given a command it does not know.
RanUnknown == last.op \in {"ui", "peer"} /\ last.cmd = "unknown"

\* The handler that ran left the registry and the UI pages alone.
NothingHappened == meetings = prev /\ updates = 0 /\ pushed = <<>>

\* The handler that ran was a click on the action button; last.port is the
\* active tab.
RanClick == last.op = "click"

\* The sessions whose tab id and window id are those of the tab `key`.
OnTab(map, key) ==
  {i \in 1..Len(map) : TabKey(Tab(map[i].port).id, Tab(map[i].port).windowId) = key}

\* The action a stored behaviour stands for; a value that is none of the
\* seven is treated like 'toggle-audio+popup'.
Configured(behavior) ==
  CASE behavior = "popup" -> "none"
    [] behavior \in {"mute-audio", "mute-audio+popup"} -> "mute"
    [] behavior \in {"focus", "focus+popup"} -> "focus"
    [] OTHER -> "toggle"

\* The requests to the tab surface the handler made, in order.
Focused == PortsOf(OutOf("focus"))

\* The behaviours that open the popup only when the action is ambiguous.
PlusPopup == {"toggle-audio+popup", "focus+popup", "mute-audio+popup"}

\* The number of sessions the selection algorithm would call a broadcast for
\* on the registry `map`.
TargetCount(map) ==
  Len(SelectSeq(ProcessMeetings(map, "toggle", Data(TRUE, FALSE), FALSE),
                LAMBDA e : e.type = "call"))

----------------------------------------------------------------------------
\* C1: in every state at most one session of the registry is preferred.
C1_AtMostOnePreferred == Cardinality(Preferred(meetings)) <= 1

\* C1 witness: setDefault(id, true) ran on a registry where another session
\* was preferred.
C1_Witness ==
  /\ RanSetDefault /\ last.prefer
  /\ HasKey(prev, last.id)
  /\ \E i \in Preferred(prev) : prev[i].id # last.id

\* C2: after setDefault(id, true) with id in the registry, session id is
\* preferred and no other session is; nothing else of the registry changed.
C2_SetDefaultTrueSelectsOnlyId ==
  (RanSetDefault /\ last.prefer /\ HasKey(prev, last.id)) =>
    /\ Len(meetings) = Len(prev)
    /\ \A i \in 1..Len(meetings) :
         meetings[i] = [prev[i] EXCEPT !.prefer = (prev[i].id = last.id)]

\* C2 witness: setDefault(b, true) ran while a later-connected session a was
\* preferred, and b is now the only preferred session.
C2_Witness ==
  /\ RanSetDefault /\ last.prefer
  /\ HasKey(prev, last.id)
  /\ \E i \in Preferred(prev) : prev[i].id > last.id
  /\ Preferred(meetings) = {KeyIndex(meetings, last.id)}

\* C3: setDefault(id, value) with id absent from the registry changes nothing.
C3_AbsentIdChangesNothing ==
  (RanSetDefault /\ ~HasKey(prev, last.id)) => meetings = prev

\* C4: setDefault(id, false) clears the flag of session id and changes no
\* other session.
C4_SetDefaultFalseTouchesOnlyId ==
  (RanSetDefault /\ ~last.prefer) =>
    /\ Len(meetings) = Len(prev)
    /\ \A i \in 1..Len(meetings) :
         meetings[i] = IF prev[i].id = last.id
                         THEN [prev[i] EXCEPT !.prefer = FALSE]
                         ELSE prev[i]

\* C4 witness: setDefault(id, false) ran on a session that was not preferred
\* while another session was.
C4_Witness ==
  /\ RanSetDefault /\ ~last.prefer
  /\ HasKey(prev, last.id)
  /\ ~prev[KeyIndex(prev, last.id)].prefer
  /\ Preferred(prev) # {}
  /\ Preferred(meetings) = Preferred(prev)

\* C5: a broadcast issued while a session is preferred reaches that session
\* and no other: every signal goes to it, the callback runs once, and the
\* command is posted once (or, for focus, the tab is focused).
C5_PreferredIsTheOnlyTarget ==
  (RanBroadcast /\ Preferred(prev) # {}) =>
    LET p == prev[DefaultIndex(prev)].port
    IN /\ \A k \in 1..Len(out) : out[k].port = p
       /\ Called = <<p>>
       /\ IF last.cmd = "focus"
            THEN Sent = <<>> /\ Len(OutOf("focus")) >= 1
            ELSE Sent = <<p>> /\ OutOf("send")[1].cmd = last.cmd

\* C5 witness: the preferred session is inactive, another one is active, and
\* a mute command was broadcast.
C5_Witness ==
  /\ RanBroadcast /\ last.cmd = "mute"
  /\ Preferred(prev) # {}
  /\ ~prev[DefaultIndex(prev)].active
  /\ NumActive(prev) > 0
  /\ Len(Sent) = 1

\* C6: a broadcast issued while no session is preferred and none is active
\* reaches every session once, in insertion order; toggle, mute and unmute are
\* posted to each of them once; an empty registry gets nothing.
C6_NoneActiveTargetsAll ==
  (RanBroadcast /\ Preferred(prev) = {} /\ NumActive(prev) = 0) =>
    /\ Called = PortsOf(prev)
    /\ last.cmd # "focus" =>
         /\ Sent = PortsOf(prev)
         /\ \A k \in 1..Len(OutOf("send")) : OutOf("send")[k].cmd = last.cmd
    /\ Len(prev) = 0 => out = <<>>

\* C6 witness: two sessions, none active, none preferred, and an unmute was
\* posted to both.
C6_Witness ==
  /\ RanBroadcast /\ last.cmd = "unmute"
  /\ Preferred(prev) = {} /\ NumActive(prev) = 0
  /\ Len(prev) >= 2
  /\ Len(Sent) = Len(prev)

\* C7: a broadcast issued while no session is preferred and some session is
\* active reaches exactly the active sessions, each once, in insertion order.
C7_ActiveOnesAreTheTargets ==
  (RanBroadcast /\ Preferred(prev) = {} /\ NumActive(prev) > 0) =>
    /\ Called = PortsOf(ActiveOnes(prev))
    /\ last.cmd # "focus" =>
         /\ Sent = PortsOf(ActiveOnes(prev))
         /\ \A k \in 1..Len(OutOf("send")) : OutOf("send")[k].cmd = last.cmd

\* C7 witness: an inactive session connected before the active one, and a
\* toggle was broadcast.
C7_Witness ==
  /\ RanBroadcast /\ last.cmd = "toggle"
  /\ Preferred(prev) = {}
  /\ Len(prev) >= 2 /\ ~prev[1].active /\ NumActive(prev) > 0
  /\ Len(Sent) = NumActive(prev)

\* C8: a broadcast with at least one target calls Meeting.autofocus exactly
\* once, as its first signal, on the target that comes first in insertion
\* order, before the callback reaches that target.
C8_AutofocusOnceOnFirstTarget ==
  (RanBroadcast /\ Called # <<>>) =>
    /\ Len(OutOf("autofocus")) = 1
    /\ out[1].type = "autofocus"
    /\ out[1].port = Called[1]
    /\ \A i \in 1..Len(prev) :
         (prev[i].port \in {Called[k] : k \in 1..Len(Called)}) =>
           PortIndex(prev, Called[1]) <= i
    /\ \A k \in 2..Len(out) : out[k].type # "autofocus"

\* C8 witness: two targets, the autofocus preference on, a mute broadcast.
C8_Witness ==
  /\ RanBroadcast /\ last.cmd = "mute"
  /\ Len(Called) >= 2
  /\ autofocus
  /\ Len(OutOf("autofocus")) = 1

\* C9: the registry holds one entry per connected peer, its ids are pairwise
\* distinct and increase in insertion order, and the ids handed out over the
\* whole run increase strictly, so none is handed out twice.
C9_IdsUniqueAndMonotonic ==
  /\ Size(meetings) = Cardinality(DOMAIN ports)
  /\ Cardinality(Ids(meetings)) = Size(meetings)
  /\ StrictlyIncreasing([i \in 1..Len(meetings) |-> meetings[i].id])
  /\ StrictlyIncreasing(assigned)
  /\ Ids(meetings) \subseteq {assigned[k] : k \in 1..Len(assigned)}

\* C9 witness: a peer connected after an earlier session had been removed.
C9_Witness ==
  /\ last.op = "connect"
  /\ \E k \in 1..Len(assigned) : assigned[k] \notin Ids(meetings)
  /\ last.id \in Ids(meetings)

\* C10: remove of an id that is not in the registry leaves the registry as it
\* was; remove keeps every other session, in order; and a second remove of
\* the same id changes nothing.
C10_RemoveIdempotent ==
  (last.op = "remove") =>
    /\ ~HasKey(prev, last.id) => meetings = prev
    /\ meetings = SelectSeq(prev, LAMBDA m : m.id # last.id)
    /\ Remove(meetings, last.id) = meetings

\* C10 witness: remove ran for an id that had been handed out and removed
\* before, on a registry that still holds a session.
C10_Witness ==
  /\ last.op = "remove"
  /\ ~HasKey(prev, last.id)
  /\ \E k \in 1..Len(assigned) : assigned[k] = last.id
  /\ Len(prev) > 0
  /\ Size(meetings) = Size(prev)

\* C11: the registry holds exactly the sessions of the peer ports that have
\* connected and whose disconnect handler has not run: the connect handler
\* adds the session, the disconnect handler removes it at once, and no signal
\* of any later handler goes to a port whose disconnect handler has run.
C11_RegistryIsTheConnectedPeers ==
  /\ {meetings[i].port : i \in 1..Len(meetings)} = DOMAIN ports
  /\ Len(meetings) = Cardinality(DOMAIN ports)
  /\ \A i \in 1..Len(meetings) : ports[meetings[i].port] = meetings[i].id
  /\ last.op = "connect" =>
       PortIndex(prev, last.port) = 0 /\ PortIndex(meetings, last.port) # 0
  /\ last.op = "disconnect" =>
       PortIndex(prev, last.port) # 0 /\ PortIndex(meetings, last.port) = 0
  /\ \A k \in 1..Len(out) : out[k].port \notin Gone

\* C11 witness: a mute was broadcast and posted to the remaining session
\* after the disconnect handler of another peer had run.
C11_Witness ==
  /\ RanBroadcast /\ last.cmd = "mute"
  /\ Gone # {}
  /\ Len(Sent) >= 1

\* C12: active is monotone: a session is created with active = false, the
\* 'joined' handler of its peer sets it, no other handler changes it, and no
\* handler sets it back to false while the session is in the registry.
C12_ActiveIsMonotone ==
  /\ \A ij \in Kept(prev, meetings) :
       /\ prev[ij[1]].active => meetings[ij[2]].active
       /\ (~prev[ij[1]].active /\ meetings[ij[2]].active) =>
            (last.op = "joined" /\ last.id = meetings[ij[2]].id)
  /\ last.op = "connect" => ~meetings[KeyIndex(meetings, last.id)].active
  /\ last.op = "joined" => meetings[KeyIndex(meetings, last.id)].active

\* C12 witness: an 'update' changed the mute state of a session that had
\* joined, and the session is still active.
C12_Witness ==
  /\ last.op = "update"
  /\ prev[KeyIndex(prev, last.id)].active
  /\ meetings # prev
  /\ meetings[KeyIndex(meetings, last.id)].active

\* C13: an 'update' message makes the handler recompute the display once if
\* the audioMuted or videoMuted it carries (the values stored afterwards)
\* differs from the value the session held, and not at all otherwise: a
\* repeated update and an update that changes only the title recompute nothing.
C13_UpdateRecomputesIffMuteChanged ==
  (last.op = "update") =>
    LET before == prev[KeyIndex(prev, last.id)]
        after == meetings[KeyIndex(meetings, last.id)]
    IN updates = IF before.audioMuted # after.audioMuted
                      \/ before.videoMuted # after.videoMuted
                   THEN 1 ELSE 0

\* C13 witness: an 'update' repeated the mute state the session had already
\* reported and changed its title, and the display was not recomputed.
C13_Witness ==
  /\ last.op = "update"
  /\ LET before == prev[KeyIndex(prev, last.id)]
         after == meetings[KeyIndex(meetings, last.id)]
     IN /\ before.audioMuted # Null
        /\ before.audioMuted = after.audioMuted
        /\ before.videoMuted = after.videoMuted
        /\ before.title # after.title
  /\ updates = 0

\* C14: the state of the registry is INACTIVE iff it is empty, MUTED iff it
\* is not empty and every session's audioMuted is true, UNMUTED otherwise; an
\* audioMuted that is still null counts as not muted, and no value of
\* videoMuted changes the state.
C14_StateOfRegistry ==
  /\ State(meetings) = "inactive" <=> Len(meetings) = 0
  /\ State(meetings) = "muted" <=>
       (Len(meetings) > 0 /\ \A i \in 1..Len(meetings) : meetings[i].audioMuted = "true")
  /\ State(meetings) = "unmuted" <=>
       (Len(meetings) > 0 /\ \E i \in 1..Len(meetings) : meetings[i].audioMuted # "true")
  /\ \A v \in {Null, "true", "false"} : State(WithVideo(meetings, v)) = State(meetings)

\* C14 witness: one session has reported a muted microphone and a muted
\* camera, another has reported nothing yet, and the state is UNMUTED.
C14_Witness ==
  /\ \E i \in 1..Len(meetings) :
       meetings[i].audioMuted = "true" /\ meetings[i].videoMuted = "true"
  /\ \E i \in 1..Len(meetings) : meetings[i].audioMuted = Null
  /\ State(meetings) = "unmuted"

\* C15: the summary is the 'No meetings found' phrase for an empty registry,
\* 'All meetings are muted.' when every session is muted, 'No meetings are
\* muted.' when none is, and otherwise '<size> active meetings; <muted> are
\* muted.' where <size> is the number of sessions, joined or not.
C15_SummaryOfRegistry ==
  LET size == Len(meetings)
      muted == Cardinality(AudioMutedOnes(meetings))
  IN /\ Summary(meetings) =
          IF size = 0
            THEN "No meetings found. Please reload Google Meet pages to connect."
          ELSE IF muted = size THEN "All meetings are muted."
          ELSE IF muted = 0 THEN "No meetings are muted."
          ELSE ToString(size) \o " active meetings; " \o ToString(muted) \o " are muted."
     /\ (size = 2 /\ muted = 1) => Summary(meetings) = "2 active meetings; 1 are muted."
     /\ (size = 3 /\ muted = 1) => Summary(meetings) = "3 active meetings; 1 are muted."

\* C15 witness: two sessions, neither joined, one of them muted.
C15_Witness ==
  /\ Len(meetings) = 2
  /\ NumActive(meetings) = 0
  /\ Cardinality(AudioMutedOnes(meetings)) = 1
  /\ Summary(meetings) = "2 active meetings; 1 are muted."

\* C16: what the badge shows follows from the registry: an empty registry
\* gives the icon 'inactive', no badge text and the inactive page as popup; a
\* registry with a session that is not muted gives 'mic-on' on green with the
\* size as text, or muted/size when some session is muted; a registry whose
\* sessions are all muted gives 'mic-off' on red with the size as text; the
\* tooltip is the summary.
C16_DisplayOfAggregate ==
  LET size == Len(meetings)
      muted == Cardinality(AudioMutedOnes(meetings))
  IN /\ display.title = Summary(meetings)
     /\ size = 0 =>
          display.icon = "inactive" /\ display.text = "" /\ display.popup = InactivePage
     /\ (size > 0 /\ muted < size) =>
          /\ display.icon = "mic-on" /\ display.color = Green
          /\ display.text = IF muted = 0 THEN ToString(size)
                            ELSE ToString(muted) \o "/" \o ToString(size)
     /\ (size > 0 /\ muted = size) =>
          display.icon = "mic-off" /\ display.color = Red /\ display.text = ToString(size)

\* C16 witness: two sessions, one of them muted: 'mic-on' with the text 1/2.
C16_Witness ==
  /\ Len(meetings) = 2
  /\ Cardinality(AudioMutedOnes(meetings)) = 1
  /\ display.icon = "mic-on"
  /\ display.text = "1/2"

\* C17: the display is never stale: a handler that changes the membership of
\* the registry, a session's prefer, active, audioMuted or videoMuted, or the
\* action button preference recomputes the display after the change, so what
\* the badge shows is what the projector gives for the registry and the
\* preference as they are.
C17_DisplayNeverStale ==
  /\ RegistryChanged => updates >= 1
  /\ last.op = "storage" => updates >= 1
  /\ display = BadgeDisplay(display, actionButtonBehavior, meetings)

\* C17 witness: under 'toggle-audio+popup' two sessions were waiting, the
\* popup target was the control page, one session joined, and the popup
\* target is now empty.
C17_Witness ==
  /\ last.op = "joined"
  /\ actionButtonBehavior = "toggle-audio+popup"
  /\ Len(prev) = 2 /\ NumActive(prev) = 0 /\ Preferred(prev) = {}
  /\ PopupAction(actionButtonBehavior, prev) = ControlPage
  /\ RegistryChanged
  /\ display.popup = ""

\* C18: every display recomputation that runs while a control port is
\* attached pushes to it a 'list' snapshot of the registry as the handler
\* left it; with no control port attached nothing is pushed.
C18_RecomputationPushesSnapshot ==
  (~RanList) =>
    pushed = IF popup # NoPort
               THEN [k \in 1..updates |-> ListReply(popup, meetings)]
               ELSE <<>>

\* C18 witness: a peer disconnected while the popup was attached, and the
\* snapshot pushed to the popup no longer lists its session.
C18_Witness ==
  /\ last.op = "disconnect"
  /\ popup # NoPort
  /\ Len(prev) = 2
  /\ Len(pushed) = 1
  /\ Len(pushed[1].meetings) = 1
  /\ pushed[1].meetings[1].id # last.id

\* C19: one control port at most is tracked for the refresh push: a control
\* port that connects replaces the one tracked, and from then on snapshots
\* are pushed to the port that connected last and never to an earlier one.
C19_NewestControlGetsThePush ==
  /\ popup \in {NoPort, NewestControl}
  /\ last.op = "control-connect" => popup = last.port
  /\ (~RanList) => \A k \in 1..Len(pushed) : pushed[k].to = NewestControl

\* C19 witness: two control ports are connected, a session joined, and the
\* snapshot went to the second port.
C19_Witness ==
  /\ last.op = "joined"
  /\ Cardinality(ctrl) = 2
  /\ Len(pushed) = 1
  /\ pushed[1].to = NewestControl
  /\ \E c \in ctrl : c < pushed[1].to

\* C20: a 'list' command is answered on the port it came over with one entry
\* per session of the registry, in insertion order, each with the session's
\* id, name, title, prefer, active, audioMuted and videoMuted; the registry
\* is left as it was and the display is not recomputed.
C20_ListAnswersOnTheSamePort ==
  RanList =>
    /\ pushed = <<[to |-> last.port, command |-> "list",
                   meetings |-> [i \in 1..Len(prev) |->
                     [id |-> prev[i].id, name |-> prev[i].port, title |-> prev[i].title,
                      prefer |-> prev[i].prefer, active |-> prev[i].active,
                      audioMuted |-> prev[i].audioMuted,
                      videoMuted |-> prev[i].videoMuted]]]>>
    /\ meetings = prev
    /\ updates = 0 /\ out = <<>>

\* C20 witness: the older of two connected control ports, which is not the
\* one tracked for the push, asked for the list of two sessions.
C20_Witness ==
  /\ RanList
  /\ last.port # popup /\ popup # NoPort
  /\ Len(pushed) = 1
  /\ pushed[1].to = last.port
  /\ Len(pushed[1].meetings) = 2
  /\ pushed[1].meetings[1].id < pushed[1].meetings[2].id

\* C21: a UI 'focus' or 'toggle' whose id names no session of the registry
\* does nothing: no signal goes to any session, no field of any session
\* changes, nothing is recomputed or pushed, and the handler returns.
C21_AbsentIdIsNoOp ==
  (RanById /\ ~HasKey(prev, last.id)) => (out = <<>> /\ NothingHappened)

\* C21 witness: a 'toggle' named the session of a peer that had disconnected
\* while another session was in the registry.
C21_Witness ==
  /\ RanById /\ last.cmd = "toggle"
  /\ ~HasKey(prev, last.id)
  /\ \E k \in 1..Len(assigned) : assigned[k] = last.id
  /\ Len(prev) >= 1
  /\ out = <<>>

\* C22: a message with a command nobody knows, from a peer or from a UI
\* page, changes no session and no membership, recomputes nothing, and gets
\* no answer.
C22_UnknownCommandIsIgnored ==
  RanUnknown => (out = <<>> /\ NothingHappened)

\* C22 witness: a peer whose session had joined sent an unknown command.
C22_Witness ==
  /\ RanUnknown /\ last.op = "peer"
  /\ Len(meetings) = 2
  /\ meetings[KeyIndex(meetings, last.id)].active
  /\ NothingHappened

\* C23: posting toggle, mute or unmute to sessions leaves the registry as it
\* was, and a session's audioMuted or videoMuted changes only in the handler
\* of an 'update' from its own peer.
C23_ForwardingIsFireAndForget ==
  /\ Sent # <<>> => meetings = prev
  /\ \A ij \in Kept(prev, meetings) :
       (prev[ij[1]].audioMuted # meetings[ij[2]].audioMuted
          \/ prev[ij[1]].videoMuted # meetings[ij[2]].videoMuted) =>
         (last.op = "update" /\ last.id = meetings[ij[2]].id)

\* C23 witness: a mute was posted to a session that had reported an unmuted
\* microphone, and the registry still says unmuted.
C23_Witness ==
  /\ RanBroadcast /\ last.cmd = "mute"
  /\ Len(Sent) >= 1
  /\ meetings[PortIndex(meetings, Sent[1])].audioMuted = "false"

\* C24: after a 'joined' the session is active, and a 'joined' from a peer
\* whose session is already active leaves every field of every session as it
\* was.
C24_JoinedIsIdempotent ==
  (last.op = "joined") =>
    /\ meetings = [prev EXCEPT ![KeyIndex(prev, last.id)].active = TRUE]
    /\ prev[KeyIndex(prev, last.id)].active => meetings = prev

\* C24 witness: a session that was active, preferred and muted got a second
\* 'joined'.
C24_Witness ==
  /\ last.op = "joined"
  /\ prev[KeyIndex(prev, last.id)].active
  /\ prev[KeyIndex(prev, last.id)].prefer
  /\ prev[KeyIndex(prev, last.id)].audioMuted = "true"
  /\ meetings = prev

\* C25: a UI 'toggle' or 'focus' naming a session of the registry reaches
\* that session and no other, whatever the preferred and active flags say:
\* the one signal of the handler is the command posted to that session (or,
\* for focus, the request to focus its tab), with no autofocus.
C25_ByIdReachesOnlyThatSession ==
  (RanById /\ HasKey(prev, last.id)) =>
    /\ Len(out) = 1
    /\ out[1].port = prev[KeyIndex(prev, last.id)].port
    /\ out[1].type = IF last.cmd = "focus" THEN "focus" ELSE "send"
    /\ last.cmd = "toggle" => out[1].cmd = "toggle"
    /\ NothingHappened

\* C25 witness: a 'toggle' named a session that had not joined while another
\* session was joined and preferred.
C25_Witness ==
  /\ RanById /\ last.cmd = "toggle"
  /\ HasKey(prev, last.id)
  /\ ~prev[KeyIndex(prev, last.id)].active
  /\ \E i \in Preferred(prev) : prev[i].id # last.id /\ prev[i].active
  /\ Sent = <<prev[KeyIndex(prev, last.id)].port>>

\* C26: a click on the action button applies the configured action (toggle,
\* mute or focus) to the session whose tab id and window id are the active
\* tab's, to it alone and with no autofocus, whatever the preferred and
\* active flags; with no such session the action goes through the selection
\* algorithm; under 'popup' nothing is sent.  The registry is not touched.
C26_ClickTargetsTheActiveTab ==
  RanClick =>
    LET act == Configured(actionButtonBehavior)
        here == OnTab(prev, last.port)
    IN /\ NothingHappened
       /\ act = "none" => out = <<>>
       /\ (act # "none" /\ here # {}) =>
            /\ Len(out) = 1
            /\ \E i \in here : out[1].port = prev[i].port
            /\ out[1].type = IF act = "focus" THEN "focus" ELSE "send"
            /\ act # "focus" => (out[1].cmd = act /\ out[1].audio /\ ~out[1].video)
       /\ (act # "none" /\ here = {}) =>
            out = ProcessMeetings(prev, act,
                                  IF act = "focus" THEN NoData ELSE Data(TRUE, FALSE),
                                  autofocus)

\* C26 witness: under 'mute-audio' the button was clicked on the tab of a
\* session that had not joined while another session was joined and
\* preferred, and the mute went to the session of the tab.
C26_Witness ==
  /\ RanClick
  /\ actionButtonBehavior = "mute-audio"
  /\ \E i \in OnTab(prev, last.port) :
       /\ ~prev[i].active /\ ~prev[i].prefer
       /\ Sent = <<prev[i].port>>
  /\ \E i \in Preferred(prev) : prev[i].active

\* C27: with a session in the registry the popup target is the control page
\* under 'popup', empty under 'toggle-audio', 'focus' and 'mute-audio', and
\* under the '+popup' behaviours and any other value the control page iff no
\* session is preferred and (more than one is active, or none is active and
\* there are several), else empty.
C27_PopupPolicy ==
  (Len(meetings) > 0) =>
    display.popup =
      CASE actionButtonBehavior = "popup" -> ControlPage
        [] actionButtonBehavior \in {"toggle-audio", "focus", "mute-audio"} -> ""
        [] OTHER ->
             IF /\ Preferred(meetings) = {}
                /\ \/ Len(ActiveOnes(meetings)) > 1
                   \/ (Len(ActiveOnes(meetings)) = 0 /\ Len(meetings) > 1)
               THEN ControlPage ELSE ""

\* C27 witness: under a behaviour that is none of the seven values, two
\* sessions wait, none joined, none preferred: the control page.
C27_Witness ==
  /\ actionButtonBehavior = Undefined
  /\ Len(meetings) = 2
  /\ NumActive(meetings) = 0 /\ Preferred(meetings) = {}
  /\ display.popup = ControlPage

\* C28: the connect handler appends a session with active = false, prefer =
\* false, no title and audioMuted = videoMuted = null at the end of the
\* registry, so right after it the state is UNMUTED; and as long as a session
\* has not reported a muted microphone the state is not MUTED.
C28_NewSessionIsBlankAndLast ==
  /\ last.op = "connect" =>
       /\ meetings = Append(prev, [id |-> last.id, port |-> last.port, title |-> NoTitle,
                                   active |-> FALSE, prefer |-> FALSE,
                                   audioMuted |-> Null, videoMuted |-> Null])
       /\ State(meetings) = "unmuted"
       /\ display.icon = "mic-on"
  /\ (\E i \in 1..Len(meetings) : meetings[i].audioMuted # "true") =>
       (State(meetings) = "unmuted" /\ display.icon = "mic-on")

\* C28 witness: a peer connected while the only session was muted, and the
\* badge went from muted to unmuted.
C28_Witness ==
  /\ last.op = "connect"
  /\ Len(prev) = 1 /\ State(prev) = "muted"
  /\ Len(meetings) = 2 /\ meetings[2].id = last.id
  /\ display.icon = "mic-on"

\* C29: with the autofocus preference off a broadcast toggle, mute or unmute
\* asks the tab surface for nothing; a broadcast focus asks it for the tab of
\* the first session of the target set in insertion order (the preferred one
\* if there is one) and for no other tab, whatever the preference.
C29_FocusOnlyTheFirstTarget ==
  RanBroadcast =>
    /\ (last.cmd # "focus" /\ ~autofocus) => Focused = <<>>
    /\ (last.cmd = "focus" /\ Called # <<>>) =>
         /\ Focused # <<>>
         /\ \A k \in 1..Len(Focused) : Focused[k] = Called[1]
         /\ \A k \in 1..Len(Called) :
              PortIndex(prev, Called[1]) <= PortIndex(prev, Called[k])
         /\ Preferred(prev) # {} => Called[1] = prev[DefaultIndex(prev)].port
    /\ Called = <<>> => Focused = <<>>

\* C29 witness: a focus was broadcast to two targets with the autofocus
\* preference on, and the tab surface was asked twice, both times for the
\* first target.
C29_Witness ==
  /\ RanBroadcast /\ last.cmd = "focus"
  /\ autofocus
  /\ Len(Called) = 2
  /\ Focused = <<Called[1], Called[1]>>

\* C30 as stated: under a '+popup' behaviour the popup target is the control
\* page exactly when the selection algorithm has more than one target, and
\* empty whenever it has one or none.
C30_PopupIffSeveralTargets ==
  (actionButtonBehavior \in PlusPopup) =>
    /\ display.popup = ControlPage <=> TargetCount(meetings) > 1
    /\ TargetCount(meetings) <= 1 => display.popup = ""

\* C30 amended: under a '+popup' behaviour and with a session in the
\* registry the popup target is the control page exactly when the selection
\* algorithm has more than one target, and empty when it has one; with an
\* empty registry (no target) it is the inactive page.
C30_PopupIffSeveralTargetsUnlessEmpty ==
  (actionButtonBehavior \in PlusPopup) =>
    /\ display.popup = ControlPage <=> TargetCount(meetings) > 1
    /\ TargetCount(meetings) = 1 => display.popup = ""
    /\ TargetCount(meetings) = 0 <=> Len(meetings) = 0
    /\ Len(meetings) = 0 => display.popup = InactivePage

\* C30 witness: under 'focus+popup' two sessions, one of them joined, none
\* preferred: one target, no popup.
C30_Witness ==
  /\ actionButtonBehavior = "focus+popup"
  /\ Len(meetings) = 2 /\ NumActive(meetings) = 1 /\ Preferred(meetings) = {}
  /\ TargetCount(meetings) = 1
  /\ display.popup = ""

\* C31: whatever the order of control ports connecting and disconnecting,
\* badge.popup is null or a control port whose disconnect has not been
\* handled, and a refresh is pushed to such a port only.
C31_PushReferenceIsConnected ==
  /\ popup # NoPort => popup \in ctrl
  /\ (~RanList) => \A k \in 1..Len(pushed) : pushed[k].to \in ctrl

\* C31 witness: the first control port connected and disconnected, a second
\* one connected, a session joined, and the snapshot went to the second port.
C31_Witness ==
  /\ last.op = "joined"
  /\ nextCtrl = 2
  /\ ctrl = {1}
  /\ Len(pushed) = 1
  /\ pushed[1].to = 1

\* C32: while the control port that connected last is still connected it is
\* the one badge.popup tracks, and every display recomputation pushes a
\* snapshot to it.
C32_NewestControlStaysTracked ==
  (NewestControl \in ctrl) =>
    /\ popup = NewestControl
    /\ (~RanList) =>
         /\ Len(pushed) = updates
         /\ \A k \in 1..Len(pushed) : pushed[k].to = NewestControl

\* The 'list' entries without their titles.
Untitled(entries) == [i \in 1..Len(entries) |-> [entries[i] EXCEPT !.title = NoTitle]]

\* The control port badge.popup names has been sent a 'list' message since it
\* connected.
PopupHasSnapshot == popup # NoPort /\ snapshot # <<>>

\* C33 as claimed: once the attached control port has got a snapshot, the
\* snapshot it got last is what a 'list' command would return now, after every
\* handled message, an 'update' that carries a new title included.
C33_SnapshotIsCurrent ==
  PopupHasSnapshot => snapshot = <<ListReply(popup, meetings)>>

\* C33 amended: once the attached control port has got a snapshot, the
\* snapshot it got last agrees with what a 'list' command would return now in
\* the sessions it lists, in their order and in every field of each session
\* except the title.
C33_SnapshotIsCurrentButForTitles ==
  PopupHasSnapshot =>
    /\ snapshot[1].to = popup
    /\ Untitled(snapshot[1].meetings) = Untitled(ListReply(popup, meetings).meetings)

\* C33 witness: the popup holds a snapshot of two sessions, the second of them
\* joined and reported since, and the snapshot shows both.
C33_Witness ==
  /\ PopupHasSnapshot
  /\ last.op = "update"
  /\ updates = 1
  /\ Len(snapshot[1].meetings) = 2
  /\ snapshot[1].meetings[2].active
  /\ snapshot[1].meetings[2].audioMuted = "true"
  /\ prev[2].audioMuted = "false"

\* The page has sent 'joined' over a port, and the coordinator has handled
\* every port event the page caused.
JoinedAndHandled == page.step \in {"rebind", "meeting"} /\ wire = <<>>

\* C34: once the page has sent 'joined' and the coordinator has handled all
\* the page sent, the session bound to the port the page holds now is active,
\* also when Connection.reconnect opened that port in place of a closed one.
C34_JoinedPeerIsActive ==
  JoinedAndHandled =>
    /\ page.port \in DOMAIN ports
    /\ PortIndex(meetings, page.port) # 0
    /\ meetings[PortIndex(meetings, page.port)].active

\* C35: defaultMuteMeeting clicks the microphone button, and the camera
\* button, once at most in the life of the page, and the preference of a
\* button it clicked is cleared.
C35_DefaultMuteClicksOnce ==
  /\ page.clicks.audio <= 1
  /\ page.clicks.video <= 1
  /\ page.clicks.audio = 1 => ~page.defaultMuteAudio
  /\ page.clicks.video = 1 => ~page.defaultMuteVideo

\* C35 witness: the default mute clicked the microphone, the user unmuted it
\* afterwards, and onMutations ran on the unmuted microphone and left it so.
C35_Witness ==
  /\ page.clicks.audio = 1
  /\ page.did.op = "mutations"
  /\ page.was.audio = "false"
  /\ page.audio = "false"

\* C36: of the buttons a command selects, 'mute' leaves each muted and
\* 'unmute' leaves each unmuted, and the same command once more changes
\* nothing; 'toggle' flips each, and once more brings it back; a button the
\* command does not select stays as it was.
C36_CommandsOnDevices ==
  page.did.op = "command" =>
    LET data == Data(page.did.audio, page.did.video)
        again == OnMessage(page, page.did.cmd, data)
    IN \A device \in {"audio", "video"} :
         /\ ~data[device] => page[device] = page.was[device]
         /\ (data[device] /\ page.did.cmd = "mute") =>
              page[device] = "true" /\ again[device] = "true"
         /\ (data[device] /\ page.did.cmd = "unmute") =>
              page[device] = "false" /\ again[device] = "false"
         /\ (data[device] /\ page.did.cmd = "toggle") =>
              page[device] = Click(page.was[device]) /\ again[device] = page.was[device]

\* C36 witness: 'mute' for the microphone alone reached a page whose
\* microphone was already muted and whose camera was not; neither changed.
C36_Witness ==
  /\ page.did = Did("command", "mute", Data(TRUE, FALSE))
  /\ page.was = [audio |-> "true", video |-> "false"]
  /\ page.audio = "true"
  /\ page.video = "false"

====
